---------------------------- MODULE Spec2Model ----------------------------
(***************************************************************************)
(* Model of the Mihomo training pipeline:                                  *)
(*   config/mihomo/AI/go_parser.py      (GoTransformParser)                *)
(*   config/mihomo/AI/train_flexible.py (main and its stages)              *)
(* One run of main() is a sequential state machine; the Go source file and *)
(* the CSV data file are the inputs, Model.bin is the output.  A text file *)
(* is a sequence of lines; a line `key=v1,v2,...` is the record of its key *)
(* and its comma-separated values, each a string built the way the         *)
(* f-strings of the code build it.                                         *)
(***************************************************************************)
EXTENDS Integers, Sequences, FiniteSets, TLC

VARIABLES pc, go_file, data_file, feature_order, log, X, y, X_scaled,
          std_scaler, robust_scaler, model, model_file, entered, failure

vars == <<pc, go_file, data_file, feature_order, log, X, y, X_scaled,
          std_scaler, robust_scaler, model, model_file, entered, failure>>

(***************************************************************************)
(* Bounds of the model.                                                    *)
(***************************************************************************)
\* number of `idx: "name"` entries written in a generated declaration body
MaxPairs == 10
\* largest hole left in the indices of a generated declaration
MaxGap == 1

(***************************************************************************)
(* Configuration constants of train_flexible.py.                           *)
(***************************************************************************)
STD_SCALER_FEATURES ==
    <<"connect_time", "latency", "upload_mb", "download_mb",
      "duration_minutes", "last_used_seconds", "traffic_density">>

ROBUST_SCALER_FEATURES == <<"success", "failure">>

\* _get_fallback_feature_order
FallbackFeatureOrder ==
    <<"success", "failure", "connect_time", "latency", "upload_mb",
      "download_mb", "duration_minutes", "last_used_seconds", "is_udp",
      "is_tcp", "asn_feature", "country_feature", "address_feature",
      "port_feature", "traffic_ratio", "traffic_density",
      "connection_type_feature", "asn_hash", "host_hash", "ip_hash",
      "geoip_hash">>

(***************************************************************************)
(* Generic helpers (Python built-ins used by the code).                    *)
(***************************************************************************)
Range(s) == {s[k] : k \in DOMAIN s}

\* list.index(v): 0-based position of the first occurrence
IndexOf(s, v) == (CHOOSE k \in DOMAIN s : s[k] = v /\ \A j \in 1..(k-1) : s[j] # v) - 1

SetMin(S) == CHOOSE m \in S : \A n \in S : m <= n

RECURSIVE Sorted(_)
\* sorted(keys): the elements of a finite set of integers, ascending
Sorted(S) == IF S = {} THEN <<>> ELSE <<SetMin(S)>> \o Sorted(S \ {SetMin(S)})

RECURSIVE Flatten(_)
\* concatenation of a sequence of sequences
Flatten(ss) == IF ss = <<>> THEN <<>> ELSE ss[1] \o Flatten(Tail(ss))

(***************************************************************************)
(* go_parser.py                                                            *)
(*                                                                         *)
(* The content of the Go file is abstracted to what the two regular        *)
(* expressions look at: whether the text holds the                         *)
(* `func getDefaultFeatureOrder() map[int]string { return map[int]string{` *)
(* ... `} }` declaration, and the entries of its body in order of          *)
(* appearance.  An entry is `idx: "name"`; an entry whose name is empty    *)
(* (`idx: ""`) is in the text but is not matched by `"([^"]+)"`.           *)
(***************************************************************************)
\* re.findall(r'(\d+):\s*"([^"]+)"', body)
FindAllFeatures(body) == SelectSeq(body, LAMBDA e : e.name # "")

\* keys of {int(idx): name for idx, name in features}
FeatureDictKeys(features) == {features[k].idx : k \in DOMAIN features}

\* a plausible slip: the first entry of a repeated key is kept
FeatureDictGetFirstWins(features, i) ==
    features[CHOOSE k \in DOMAIN features :
                /\ features[k].idx = i
                /\ \A j \in DOMAIN features : features[j].idx = i => j >= k].name

\* feature_dict[i]: a dict comprehension keeps the last entry of a repeated key
FeatureDictGet(features, i) ==
    features[CHOOSE k \in DOMAIN features :
                /\ features[k].idx = i
                /\ \A j \in DOMAIN features : features[j].idx = i => j <= k].name

RECURSIVE AppearanceKeys(_)
\* the distinct keys in order of first appearance (dict insertion order)
AppearanceKeys(features) ==
    IF features = <<>> THEN <<>>
    ELSE LET rest == AppearanceKeys(SubSeq(features, 1, Len(features) - 1))
             last == features[Len(features)].idx
         IN  IF last \in Range(rest) THEN rest ELSE Append(rest, last)

\* a plausible slip: the sort forgotten, [feature_dict[i] for i in feature_dict]
SortedFeaturesUnsorted(features) ==
    LET keys == AppearanceKeys(features)
    IN  [k \in DOMAIN keys |-> FeatureDictGet(features, keys[k])]

\* [feature_dict[i] for i in sorted(feature_dict.keys())]
SortedFeatures(features) ==
    LET keys == Sorted(FeatureDictKeys(features))
    IN  [k \in DOMAIN keys |-> FeatureDictGet(features, keys[k])]

\* a plausible slip: an empty declaration body yields an empty order
ParseFeatureOrderNoEmptyCheck(content) ==
    IF ~content.decl
    THEN [feature_order |-> FallbackFeatureOrder, diag |-> "warn_no_function"]
    ELSE [feature_order |-> SortedFeatures(FindAllFeatures(content.body)),
          diag |-> "parsed"]

\* GoTransformParser._parse_feature_order: the list returned and the
\* diagnostic printed on the way
ParseFeatureOrder(content) ==
    IF ~content.decl
    THEN [feature_order |-> FallbackFeatureOrder, diag |-> "warn_no_function"]
    ELSE LET features == FindAllFeatures(content.body)
         IN  IF features = <<>>
             THEN [feature_order |-> FallbackFeatureOrder,
                   diag |-> "warn_no_features"]
             ELSE [feature_order |-> SortedFeatures(features),
                   diag |-> "parsed"]

\* a plausible slip: a missing file is defaulted instead of raised
GoTransformParserInitDefaulting(file) ==
    IF ~file.exists
    THEN [raised |-> FALSE, feature_order |-> FallbackFeatureOrder,
          diags |-> {"warn_no_function"}]
    ELSE LET r == ParseFeatureOrder(file)
         IN  [raised |-> FALSE, feature_order |-> r.feature_order,
              diags |-> {"read_ok", r.diag}]

\* GoTransformParser.__init__: open/read the file, re-raise FileNotFoundError,
\* else parse
GoTransformParserInit(file) ==
    IF ~file.exists
    THEN [raised |-> TRUE, feature_order |-> <<>>, diags |-> {}]
    ELSE LET r == ParseFeatureOrder(file)
         IN  [raised |-> FALSE, feature_order |-> r.feature_order,
              diags |-> {"read_ok", r.diag}]

(***************************************************************************)
(* train_flexible.py: values                                               *)
(***************************************************************************)
\* Python's None where a DataFrame is expected
NoneValue == [is_none |-> TRUE, columns |-> <<>>, values |-> <<>>]

\* a DataFrame: its column labels and, per column, a term naming its content
Frame(columns, values) == [is_none |-> FALSE, columns |-> columns, values |-> values]

\* a line of text without `=`
TextLine(text) == [key |-> text, eq |-> FALSE, vals |-> <<>>]

\* a line `key=v1,v2,...`
KeyValueLine(key, vals) == [key |-> key, eq |-> TRUE, vals |-> vals]

\* the text model.save_model writes; opaque to the pipeline
NativeModelText == <<TextLine("tree"), TextLine("end of parameters")>>

(***************************************************************************)
(* train_flexible.py: the stages                                           *)
(***************************************************************************)
\* load_and_clean_data: None when the file is missing; data['weight'] raises
\* KeyError when the column is absent; else the cleaned frame
LoadAndCleanData(file) ==
    IF ~file.exists
    THEN [raised |-> "none", data |-> NoneValue, diag |-> "data_not_found"]
    ELSE IF "weight" \notin file.columns
    THEN [raised |-> "KeyError", data |-> NoneValue, diag |-> "data_loaded"]
    ELSE [raised |-> "none",
          data |-> [is_none |-> FALSE, columns |-> file.columns],
          diag |-> "data_loaded"]

\* extract_features_from_preprocessed: (X, y), or (None, None) with a
\* diagnostic when data[feature_order] raises KeyError; a tuple in both cases
ExtractFeaturesFromPreprocessed(data, order) ==
    IF Range(order) \subseteq data.columns
    THEN [is_none |-> FALSE, X |-> Frame(order, order), y |-> "weight",
          diag |-> "extracted"]
    ELSE [is_none |-> FALSE, X |-> NoneValue, y |-> "None",
          diag |-> "missing_feature_columns"]

\* df[keys] on a frame: for each key in turn, every column carrying that label
ColumnPositions(columns, keys) ==
    Flatten([k \in DOMAIN keys |->
        LET hits == {p \in DOMAIN columns : columns[p] = keys[k]}
        IN  Sorted(hits)])

\* a plausible slip: the scaler is fitted on the columns in frame order
FitPositionsFrameOrder(columns, keys) ==
    Sorted({p \in DOMAIN columns : columns[p] \in Range(keys)})

\* the columns scaler.fit_transform(X_scaled[keys]) sees, in the order it
\* sees them
FitPositions(columns, keys) == ColumnPositions(columns, keys)

\* StandardScaler().fit_transform on the selected columns: the fitted
\* parameters and the frame with those columns replaced
FitStandard(frame, keys) ==
    LET pos   == FitPositions(frame.columns, keys)
        mean  == [k \in DOMAIN pos |-> "mean(" \o frame.values[pos[k]] \o ")"]
        scale == [k \in DOMAIN pos |-> "std(" \o frame.values[pos[k]] \o ")"]
        at(p) == CHOOSE k \in DOMAIN pos : pos[k] = p
    IN  [scaler |-> [mean_ |-> mean, scale_ |-> scale],
         frame |-> Frame(frame.columns,
            [p \in DOMAIN frame.values |->
                IF p \in Range(pos)
                THEN "(" \o frame.values[p] \o "-" \o mean[at(p)] \o ")/" \o scale[at(p)]
                ELSE frame.values[p]])]

\* RobustScaler().fit_transform on the selected columns
FitRobust(frame, keys) ==
    LET pos    == FitPositions(frame.columns, keys)
        center == [k \in DOMAIN pos |-> "median(" \o frame.values[pos[k]] \o ")"]
        scale  == [k \in DOMAIN pos |-> "iqr(" \o frame.values[pos[k]] \o ")"]
        at(p)  == CHOOSE k \in DOMAIN pos : pos[k] = p
    IN  [scaler |-> [center_ |-> center, scale_ |-> scale],
         frame |-> Frame(frame.columns,
            [p \in DOMAIN frame.values |->
                IF p \in Range(pos)
                THEN "(" \o frame.values[p] \o "-" \o center[at(p)] \o ")/" \o scale[at(p)]
                ELSE frame.values[p]])]

\* apply_feature_transforms: X.copy() raises AttributeError on None, a scaler
\* feature absent from the columns raises KeyError
ApplyFeatureTransforms(frame) ==
    IF frame.is_none
    THEN [raised |-> "AttributeError"]
    ELSE IF ~(Range(STD_SCALER_FEATURES) \subseteq Range(frame.columns))
    THEN [raised |-> "KeyError"]
    ELSE LET std == FitStandard(frame, STD_SCALER_FEATURES)
         IN  IF ~(Range(ROBUST_SCALER_FEATURES) \subseteq Range(frame.columns))
             THEN [raised |-> "KeyError"]
             ELSE LET rob == FitRobust(std.frame, ROBUST_SCALER_FEATURES)
                  IN  [raised |-> "none", X_scaled |-> rob.frame,
                       std_scaler |-> std.scaler, robust_scaler |-> rob.scaler]

(***************************************************************************)
(* train_flexible.py: save_model_and_config                                *)
(***************************************************************************)
\* "[order]\n" + "".join(f"{i}={name}\n" ...) + "[/order]\n"
OrderBlock(order) ==
    <<TextLine("[order]")>>
    \o [k \in DOMAIN order |-> KeyValueLine(ToString(k - 1), <<order[k]>>)]
    \o <<TextLine("[/order]")>>

\* a plausible slip: the indices sorted before they are written
ScalerIndicesAscending(order, names) ==
    Sorted({IndexOf(order, names[k]) : k \in DOMAIN names})

\* [feature_order.index(f) for f in NAMES]
ScalerIndices(order, names) == [k \in DOMAIN names |-> IndexOf(order, names[k])]

\* ','.join(map(str, ints)) before the join
Strs(ints) == [k \in DOMAIN ints |-> ToString(ints[k])]

\* the definitions_block string
DefinitionsBlock(std_indices, robust_indices, std, robust) ==
    << TextLine("[definitions]"),
       KeyValueLine("std_type", <<"StandardScaler">>),
       KeyValueLine("std_features", Strs(std_indices)),
       KeyValueLine("std_mean", std.mean_),
       KeyValueLine("std_scale", std.scale_),
       TextLine(""),
       KeyValueLine("robust_type", <<"RobustScaler">>),
       KeyValueLine("robust_features", Strs(robust_indices)),
       KeyValueLine("robust_center", robust.center_),
       KeyValueLine("robust_scale", robust.scale_),
       TextLine("[/definitions]") >>

RECURSIVE UntransformedListStdOnly(_, _)
\* a plausible slip: only the standard-scaled names are left out
UntransformedListStdOnly(order, transformed) ==
    IF order = <<>> THEN <<>>
    ELSE LET i    == Len(order) - 1
             init == UntransformedListStdOnly(SubSeq(order, 1, i), transformed)
         IN  IF order[i + 1] \in Range(STD_SCALER_FEATURES)
             THEN init
             ELSE Append(init, ToString(i) \o ":" \o order[i + 1])

RECURSIVE UntransformedList(_, _)
\* [f"{i}:{name}" for i, name in enumerate(feature_order)
\*                if i not in transformed_indices]
UntransformedList(order, transformed) ==
    IF order = <<>> THEN <<>>
    ELSE LET i    == Len(order) - 1
             init == UntransformedList(SubSeq(order, 1, i), transformed)
         IN  IF i \in transformed
             THEN init
             ELSE Append(init, ToString(i) \o ":" \o order[i + 1])

\* a plausible slip: the two blocks also written at the top level, before
\* [transforms]
FinalTransformsBlockTopLevel(order_block, definitions_block, untransformed_list) ==
    << TextLine(""), TextLine(""), TextLine("end of trees"), TextLine("") >>
    \o order_block \o definitions_block
    \o << TextLine("[transforms]") >>
    \o order_block \o definitions_block
    \o << KeyValueLine("untransformed_features", untransformed_list),
          KeyValueLine("transform", <<"true">>),
          TextLine("[/transforms]") >>

\* final_transforms_block, the text appended to MODEL_FILE
FinalTransformsBlock(order_block, definitions_block, untransformed_list) ==
    << TextLine(""), TextLine(""), TextLine("end of trees"), TextLine(""),
       TextLine("[transforms]") >>
    \o order_block \o definitions_block
    \o << KeyValueLine("untransformed_features", untransformed_list),
          KeyValueLine("transform", <<"true">>),
          TextLine("[/transforms]") >>

\* lines 101-117 of save_model_and_config: the block built from the scalers
\* and the feature order
TransformsText(order, std, robust) ==
    LET std_indices    == ScalerIndices(order, STD_SCALER_FEATURES)
        robust_indices == ScalerIndices(order, ROBUST_SCALER_FEATURES)
        transformed    == Range(std_indices) \cup Range(robust_indices)
    IN  FinalTransformsBlock(
            OrderBlock(order),
            DefinitionsBlock(std_indices, robust_indices, std, robust),
            UntransformedList(order, transformed))

(***************************************************************************)
(* The inputs of a run: the Go file and the data file.                     *)
(***************************************************************************)
\* the names a generated declaration draws from: the scaler features in
\* their configured order, then the other features of the fallback order
NamePool ==
    ROBUST_SCALER_FEATURES \o STD_SCALER_FEATURES
    \o SelectSeq(FallbackFeatureOrder,
          LAMBDA n : n \notin Range(ROBUST_SCALER_FEATURES)
                           \cup Range(STD_SCALER_FEATURES))

DeclNames == SubSeq(NamePool, 1, MaxPairs)

\* the names of the entries, in order of appearance: as pooled, one name
\* emptied (an entry the pattern skips), one name repeated, or all emptied
NameVariants ==
    {DeclNames}
    \cup {[DeclNames EXCEPT ![k] = ""] : k \in 1..MaxPairs}
    \cup {[DeclNames EXCEPT ![k] = DeclNames[(k % MaxPairs) + 1]] : k \in 1..MaxPairs}
    \cup {[k \in 1..MaxPairs |-> ""]}

IdentityIdx == [k \in 1..MaxPairs |-> k - 1]

\* the indices of the entries, in order of appearance: 0..N-1 in order, two
\* of them exchanged, reversed, a hole left before one entry, or one index
\* repeated
IdxVariants ==
    {IdentityIdx}
    \cup {[IdentityIdx EXCEPT ![i] = j - 1, ![j] = i - 1] :
            i \in 1..MaxPairs, j \in 1..MaxPairs}
    \cup {[k \in 1..MaxPairs |-> MaxPairs - k]}
    \cup {[k \in 1..MaxPairs |-> IF k >= g THEN k - 1 + h ELSE k - 1] :
            g \in 1..MaxPairs, h \in 1..MaxGap}
    \cup {[IdentityIdx EXCEPT ![k] = (k % MaxPairs)] : k \in 1..MaxPairs}

Bodies ==
    {<<>>}
    \cup {[k \in 1..MaxPairs |-> [idx |-> ix[k], name |-> nm[k]]] :
            ix \in IdxVariants, nm \in NameVariants}

\* what open(go_file_path).read() can find
GoFiles ==
    {[exists |-> FALSE, decl |-> FALSE, body |-> <<>>],
     [exists |-> TRUE, decl |-> FALSE, body |-> <<>>]}
    \cup {[exists |-> TRUE, decl |-> TRUE, body |-> b] : b \in Bodies}

AllColumns == Range(FallbackFeatureOrder) \cup {"weight"}

DroppableColumns == {"latency", "weight", "is_udp"}

\* what pd.read_csv(file_path) can find
DataFiles ==
    {[exists |-> FALSE, columns |-> {}],
     [exists |-> TRUE, columns |-> AllColumns]}
    \cup {[exists |-> TRUE, columns |-> AllColumns \ {c}] : c \in DroppableColumns}

(***************************************************************************)
(* The run of main().                                                      *)
(***************************************************************************)
Init ==
    /\ pc = "init"
    /\ go_file \in GoFiles
    /\ data_file \in DataFiles
    /\ feature_order = <<>>
    /\ log = {}
    /\ X = NoneValue
    /\ y = "None"
    /\ X_scaled = NoneValue
    /\ std_scaler = [mean_ |-> <<>>, scale_ |-> <<>>]
    /\ robust_scaler = [center_ |-> <<>>, scale_ |-> <<>>]
    /\ model = [trained |-> FALSE, feature_name |-> <<>>, trained_on |-> <<>>]
    /\ model_file = [exists |-> FALSE, lines |-> <<>>]
    /\ entered = {}
    /\ failure = "none"

\* main lines 131-136: construct the parser; `except Exception` prints and
\* returns
ParserInit ==
    /\ pc = "init"
    /\ LET r == GoTransformParserInit(go_file)
       IN  \/ /\ r.raised
              /\ pc' = "done"
              /\ failure' = "SourceUnreadable"
              /\ log' = log \cup {"init_failed"}
              /\ UNCHANGED feature_order
           \/ /\ ~r.raised
              /\ pc' = "load"
              /\ feature_order' = r.feature_order
              /\ log' = log \cup r.diags
              /\ UNCHANGED failure
    /\ entered' = entered \cup {"GoTransformParser"}
    /\ UNCHANGED <<go_file, data_file, X, y, X_scaled, std_scaler,
                   robust_scaler, model, model_file>>

\* main lines 138-140
LoadData ==
    /\ pc = "load"
    /\ LET r == LoadAndCleanData(data_file)
       IN  /\ log' = log \cup {r.diag}
           /\ \/ /\ r.raised # "none"
                 /\ pc' = "done"
                 /\ failure' = r.raised
              \/ /\ r.raised = "none" /\ r.data.is_none
                 /\ pc' = "done"
                 /\ failure' = "DataUnreadable"
              \/ /\ r.raised = "none" /\ ~r.data.is_none
                 /\ pc' = "extract"
                 /\ UNCHANGED failure
    /\ entered' = entered \cup {"load_and_clean_data"}
    /\ UNCHANGED <<go_file, data_file, feature_order, X, y, X_scaled,
                   std_scaler, robust_scaler, model, model_file>>

\* main lines 142-145: `result is None` is tested on the tuple returned
ExtractFeatures ==
    /\ pc = "extract"
    /\ LET result == ExtractFeaturesFromPreprocessed(
                        [is_none |-> FALSE, columns |-> data_file.columns],
                        feature_order)
       IN  /\ log' = log \cup {result.diag}
           /\ IF result.is_none
              THEN /\ pc' = "done"
                   /\ failure' = "MissingFeatureColumns"
                   /\ UNCHANGED <<X, y>>
              ELSE /\ pc' = "transform"
                   /\ X' = result.X
                   /\ y' = result.y
                   /\ UNCHANGED failure
    /\ entered' = entered \cup {"extract_features_from_preprocessed"}
    /\ UNCHANGED <<go_file, data_file, feature_order, X_scaled, std_scaler,
                   robust_scaler, model, model_file>>

\* main line 147
ApplyTransforms ==
    /\ pc = "transform"
    /\ LET r == ApplyFeatureTransforms(X)
       IN  IF r.raised # "none"
           THEN /\ pc' = "done"
                /\ failure' = r.raised
                /\ UNCHANGED <<X_scaled, std_scaler, robust_scaler>>
           ELSE /\ pc' = "train"
                /\ X_scaled' = r.X_scaled
                /\ std_scaler' = r.std_scaler
                /\ robust_scaler' = r.robust_scaler
                /\ UNCHANGED failure
    /\ entered' = entered \cup {"apply_feature_transforms"}
    /\ UNCHANGED <<go_file, data_file, feature_order, log, X, y, model,
                   model_file>>

\* lgb.Dataset(X_train, ...) takes its feature names from the frame's columns;
\* LightGBM refuses a feature name that appears more than once
LgbAcceptsFeatureNames(columns) ==
    Cardinality(Range(columns)) = Len(columns)

\* main lines 149-150: split and train; the library may fail for reasons of
\* its own (no GPU device, bad data), and fails on repeated feature names
TrainModel ==
    /\ pc = "train"
    /\ \/ /\ pc' = "done"
          /\ failure' = "TrainingFailure"
          /\ UNCHANGED model
       \/ /\ LgbAcceptsFeatureNames(X_scaled.columns)
          /\ pc' = "save"
          /\ model' = [trained |-> TRUE, feature_name |-> X_scaled.columns,
                       trained_on |-> X_scaled.values]
          /\ UNCHANGED failure
    /\ entered' = entered \cup {"train_model"}
    /\ UNCHANGED <<go_file, data_file, feature_order, log, X, y, X_scaled,
                   std_scaler, robust_scaler, model_file>>

\* save_model_and_config line 98: model.save_model(MODEL_FILE) creates the
\* file with the native text; an I/O error leaves no file or a truncated one
SaveModelText ==
    /\ pc = "save"
    /\ \/ /\ model_file' = [exists |-> TRUE, lines |-> NativeModelText]
          /\ pc' = "append"
          /\ UNCHANGED failure
       \/ /\ pc' = "done"
          /\ failure' = "ArtifactWriteFailure"
          /\ UNCHANGED model_file
       \/ /\ pc' = "done"
          /\ failure' = "ArtifactWriteFailure"
          /\ \E n \in 0..(Len(NativeModelText) - 1) :
                model_file' = [exists |-> TRUE,
                               lines |-> SubSeq(NativeModelText, 1, n)]
    /\ entered' = entered \cup {"save_model_and_config"}
    /\ UNCHANGED <<go_file, data_file, feature_order, log, X, y, X_scaled,
                   std_scaler, robust_scaler, model>>

\* a plausible slip: MODEL_FILE opened with 'w' instead of 'a', the native
\* text replaced by the block
AppendTransformsTruncating ==
    /\ pc = "append"
    /\ LET block == TransformsText(feature_order, std_scaler, robust_scaler)
       IN  \/ /\ model_file' = [model_file EXCEPT !.lines = block]
              /\ log' = log \cup {"config_appended"}
              /\ UNCHANGED failure
           \/ /\ \E n \in 0..(Len(block) - 1) :
                    model_file' = [model_file EXCEPT !.lines = SubSeq(block, 1, n)]
              /\ failure' = "ArtifactWriteFailure"
              /\ UNCHANGED log
    /\ pc' = "done"
    /\ UNCHANGED <<go_file, data_file, feature_order, X, y, X_scaled,
                   std_scaler, robust_scaler, model, entered>>

\* save_model_and_config lines 101-121: build the block and append it to
\* MODEL_FILE; an I/O error leaves the file with part of the block or none
AppendTransforms ==
    /\ pc = "append"
    /\ LET block == TransformsText(feature_order, std_scaler, robust_scaler)
       IN  \/ /\ model_file' = [model_file EXCEPT !.lines = @ \o block]
              /\ log' = log \cup {"config_appended"}
              /\ UNCHANGED failure
           \/ /\ \E n \in 0..(Len(block) - 1) :
                    model_file' = [model_file EXCEPT
                                      !.lines = @ \o SubSeq(block, 1, n)]
              /\ failure' = "ArtifactWriteFailure"
              /\ UNCHANGED log
    /\ pc' = "done"
    /\ UNCHANGED <<go_file, data_file, feature_order, X, y, X_scaled,
                   std_scaler, robust_scaler, model, entered>>

Next ==
    \/ ParserInit
    \/ LoadData
    \/ ExtractFeatures
    \/ ApplyTransforms
    \/ TrainModel
    \/ SaveModelText
    \/ AppendTransforms

Spec == Init /\ [][Next]_vars

(***************************************************************************)
(* Vocabulary of the properties.                                           *)
(***************************************************************************)
\* the run wrote the whole block and returned from save_model_and_config
Complete == pc = "done" /\ "config_appended" \in log

\* the entries of the declaration the pattern matches (a non-empty name)
MatchedEntries == {k \in DOMAIN go_file.body : go_file.body[k].name # ""}

SourceIndices == {go_file.body[k].idx : k \in MatchedEntries}

\* the resolver took the parsed branch
Parsed == "parsed" \in log

FellBack == log \cap {"warn_no_function", "warn_no_features"} # {}

\* the number a decimal string of the file denotes
ParseInt(str) == CHOOSE n \in 0..(Len(feature_order) + 1) : ToString(n) = str

\* the lines of MODEL_FILE carrying `key=`
LinesOf(key) ==
    {i \in DOMAIN model_file.lines :
        model_file.lines[i].eq /\ model_file.lines[i].key = key}

\* the values of the one line `key=...` of the file
ValsOf(key) == model_file.lines[CHOOSE i \in LinesOf(key) : TRUE].vals

StrictlyAscending(strs) ==
    \A k \in 1..(Len(strs) - 1) : ParseInt(strs[k]) < ParseInt(strs[k + 1])

\* the fallback list as the specification enumerates it
SpecFallbackList ==
    <<"success", "failure", "connect_time", "latency", "upload_mb",
      "download_mb", "duration_minutes", "last_used_seconds", "is_udp",
      "is_tcp", "asn_feature", "country_feature", "address_feature",
      "port_feature", "traffic_ratio", "traffic_density",
      "connection_type_feature", "asn_hash", "host_hash", "ip_hash",
      "geoip_hash">>

StdNames == {"connect_time", "latency", "upload_mb", "download_mb",
             "duration_minutes", "last_used_seconds", "traffic_density"}

RobustNames == {"success", "failure"}

(***************************************************************************)
(* C1                                                                      *)
(***************************************************************************)
\* C1: once extract_features_from_preprocessed has reported missing feature
\* columns, the run is over with the missing-feature-columns failure:
\* apply_feature_transforms, train_model and save_model_and_config are never
\* entered, no other failure ends the run, and no artifact file exists.
C1_MissingColumnsAbort ==
    "missing_feature_columns" \in log =>
        /\ pc = "done"
        /\ failure = "MissingFeatureColumns"
        /\ entered \cap {"apply_feature_transforms", "train_model",
                         "save_model_and_config"} = {}
        /\ ~model_file.exists

(***************************************************************************)
(* C2                                                                      *)
(***************************************************************************)
\* the file holds the whole artifact: native model text, two blank lines, the
\* sentinel, the block through [/transforms]
WholeArtifact(lines) ==
    /\ Len(lines) > Len(NativeModelText) + 3
    /\ SubSeq(lines, 1, Len(NativeModelText)) = NativeModelText
    /\ lines[Len(NativeModelText) + 3] = TextLine("end of trees")
    /\ lines[Len(lines)] = TextLine("[/transforms]")
    /\ Cardinality({i \in DOMAIN lines : lines[i] = TextLine("[/transforms]")}) = 1

\* C2 as stated: in every reachable state the file at MODEL_FILE is either
\* not created by the run or holds the complete artifact: the native model
\* text, the `end of trees` sentinel and the metadata block through
\* `[/transforms]`.
C2_NoPartialArtifact == model_file.exists => WholeArtifact(model_file.lines)

\* C2 amended: a run that fails before save_model_and_config (source
\* unreadable, data unreadable, missing columns, training failure) creates no
\* file at MODEL_FILE.  save_model_and_config writes MODEL_FILE in place in
\* two steps, so after model.save_model the file holds the native model text
\* alone, and after an I/O failure it holds a truncated artifact; it holds the
\* complete artifact exactly when the run has completed.
C2_PartialOnlyInsideSave ==
    /\ model_file.exists => "save_model_and_config" \in entered
    /\ failure \in {"SourceUnreadable", "DataUnreadable", "KeyError",
                    "AttributeError", "TrainingFailure"} => ~model_file.exists
    /\ pc = "append" => model_file.exists /\ model_file.lines = NativeModelText
    /\ Complete <=> (model_file.exists /\ WholeArtifact(model_file.lines))
    /\ (pc = "done" /\ failure = "ArtifactWriteFailure" /\ model_file.exists) =>
          ~WholeArtifact(model_file.lines)

\* the append failed half way: the final path holds the native text and part
\* of the block
C2_Witness ==
    /\ pc = "done"
    /\ failure = "ArtifactWriteFailure"
    /\ model_file.exists
    /\ Len(model_file.lines) > Len(NativeModelText) + 3
    /\ ~WholeArtifact(model_file.lines)

(***************************************************************************)
(* C3                                                                      *)
(***************************************************************************)
\* the position (0-based) of a name that occurs once in the feature order
PositionOf(name) == (CHOOSE p \in DOMAIN feature_order : feature_order[p] = name) - 1

\* the configured names occur in the feature order in their configured order
InConfiguredOrder(names) ==
    \A a, b \in DOMAIN names : a < b => PositionOf(names[a]) < PositionOf(names[b])

\* C3 as stated: for every feature order that reaches the writer, the indices
\* of std_features and of robust_features are written strictly ascending,
\* whatever the order of the names in the configuration.
C3_IndicesAscending ==
    Complete =>
        /\ StrictlyAscending(ValsOf("std_features"))
        /\ StrictlyAscending(ValsOf("robust_features"))

\* C3 amended: the k-th index written in std_features (robust_features) is
\* the FeatureOrder index of the k-th name of STD_SCALER_FEATURES
\* (ROBUST_SCALER_FEATURES); the list is ascending exactly when the names
\* occur in the feature order in their configured order, as they do in the
\* fallback order.
C3_IndicesInConfiguredOrder ==
    Complete =>
        /\ Cardinality(LinesOf("std_features")) = 1
        /\ Cardinality(LinesOf("robust_features")) = 1
        /\ Len(ValsOf("std_features")) = Len(STD_SCALER_FEATURES)
        /\ Len(ValsOf("robust_features")) = Len(ROBUST_SCALER_FEATURES)
        /\ \A k \in DOMAIN STD_SCALER_FEATURES :
              feature_order[ParseInt(ValsOf("std_features")[k]) + 1]
                 = STD_SCALER_FEATURES[k]
        /\ \A k \in DOMAIN ROBUST_SCALER_FEATURES :
              feature_order[ParseInt(ValsOf("robust_features")[k]) + 1]
                 = ROBUST_SCALER_FEATURES[k]
        /\ StrictlyAscending(ValsOf("std_features"))
              <=> InConfiguredOrder(STD_SCALER_FEATURES)
        /\ StrictlyAscending(ValsOf("robust_features"))
              <=> InConfiguredOrder(ROBUST_SCALER_FEATURES)
        /\ feature_order = SpecFallbackList =>
              /\ StrictlyAscending(ValsOf("std_features"))
              /\ StrictlyAscending(ValsOf("robust_features"))

\* a complete artifact whose std_features are not ascending
C3_Witness ==
    /\ Complete
    /\ Parsed
    /\ ~StrictlyAscending(ValsOf("std_features"))

(***************************************************************************)
(* C4                                                                      *)
(***************************************************************************)
IsOrderEntry(line) ==
    line.eq /\ line.key \in {ToString(i) : i \in 0..Len(feature_order)}

\* the lines of the file after the native model text
Appended == SubSeq(model_file.lines, Len(NativeModelText) + 1, Len(model_file.lines))

\* the appended lines without the `<index>=<name>` entries, by key
Skeleton ==
    LET rest == SelectSeq(Appended, LAMBDA l : ~IsOrderEntry(l))
    IN  [k \in DOMAIN rest |-> rest[k].key]

DefinitionsKeys ==
    <<"[definitions]", "std_type", "std_features", "std_mean", "std_scale", "",
      "robust_type", "robust_features", "robust_center", "robust_scale",
      "[/definitions]">>

\* C4 as stated: after the sentinel come a top-level order block, a top-level
\* definitions block, then [transforms] holding a copy of each, the
\* untransformed_features line, transform=true and [/transforms].
C4_BlocksTwice ==
    Complete =>
        Skeleton = <<"", "", "end of trees", "">>
                   \o <<"[order]", "[/order]">> \o DefinitionsKeys
                   \o <<"[transforms]", "[order]", "[/order]">> \o DefinitionsKeys
                   \o <<"untransformed_features", "transform", "[/transforms]">>

\* C4 amended: after the sentinel the order block and the definitions block
\* are written once each, both inside [transforms]: [transforms], the order
\* block with one entry per feature, the definitions block, the
\* untransformed_features line, transform=true, [/transforms]; there is no
\* top-level copy.
C4_BlocksOnce ==
    Complete =>
        /\ Skeleton = <<"", "", "end of trees", "">>
                      \o <<"[transforms]", "[order]", "[/order]">> \o DefinitionsKeys
                      \o <<"untransformed_features", "transform", "[/transforms]">>
        /\ Len(Appended) = Len(Skeleton) + Len(feature_order)
        /\ \A k \in DOMAIN feature_order :
              Appended[6 + k] = KeyValueLine(ToString(k - 1), <<feature_order[k]>>)
        /\ Appended[6] = TextLine("[order]")
        /\ Appended[7 + Len(feature_order)] = TextLine("[/order]")

\* a complete artifact written for a parsed order
C4_Witness == Complete /\ Parsed /\ Len(feature_order) = MaxPairs

(***************************************************************************)
(* C5                                                                      *)
(***************************************************************************)
\* C5: with the Go file missing the constructor raises and main ends the run
\* at once: no feature order (not the fallback either), no data loaded, no
\* scaler fitted, no model trained, no artifact; and whenever the fallback
\* order is in use the file had been read.
C5_MissingSourceIsFatal ==
    /\ (~go_file.exists /\ pc # "init") =>
          /\ pc = "done"
          /\ failure = "SourceUnreadable"
          /\ feature_order = <<>>
          /\ ~FellBack
          /\ entered = {"GoTransformParser"}
          /\ X_scaled.is_none
          /\ std_scaler.mean_ = <<>> /\ robust_scaler.center_ = <<>>
          /\ ~model.trained
          /\ ~model_file.exists
    /\ (FellBack \/ feature_order = SpecFallbackList) =>
          go_file.exists /\ "read_ok" \in log

\* the run ended on a missing Go file
C5_Witness == ~go_file.exists /\ pc = "done" /\ failure = "SourceUnreadable"

(***************************************************************************)
(* C6                                                                      *)
(***************************************************************************)
\* the readable source is malformed: no declaration, or a declaration whose
\* body holds no (index, name) pair
Malformed == ~go_file.decl \/ MatchedEntries = {}

\* C6: for a readable source the resolver returns exactly the 21-name
\* fallback list in both malformed cases, and takes the parsed branch, with
\* names of the declaration only, in every other case.
C6_FallbackExactlyWhenMalformed ==
    (go_file.exists /\ pc # "init") =>
        /\ Malformed =>
              /\ feature_order = SpecFallbackList
              /\ Len(feature_order) = 21
              /\ FellBack /\ ~Parsed
        /\ ~Malformed =>
              /\ ~FellBack /\ Parsed
              /\ Range(feature_order)
                    \subseteq {go_file.body[k].name : k \in MatchedEntries}

\* a declaration is there, with entries, none of which is a pair
C6_Witness ==
    /\ go_file.exists /\ go_file.decl
    /\ go_file.body # <<>> /\ MatchedEntries = {}
    /\ pc = "load"
    /\ feature_order = SpecFallbackList

(***************************************************************************)
(* C7                                                                      *)
(***************************************************************************)
\* every entry is a pair and the indices are a permutation of 0..N-1
WellFormedPermutation ==
    /\ go_file.exists /\ go_file.decl
    /\ Len(go_file.body) >= 1
    /\ MatchedEntries = DOMAIN go_file.body
    /\ SourceIndices = 0..(Len(go_file.body) - 1)

\* C7: a declaration of N pairs whose indices are a permutation of 0..N-1
\* resolves to a list of length N whose element at position i is the name
\* declared with index i, whatever the order of appearance.
C7_PermutationOrderedByIndex ==
    (WellFormedPermutation /\ pc # "init") =>
        /\ Len(feature_order) = Len(go_file.body)
        /\ \A k \in DOMAIN go_file.body :
              feature_order[go_file.body[k].idx + 1] = go_file.body[k].name

\* a permutation whose pairs do not appear in index order, resolved
C7_Witness ==
    /\ WellFormedPermutation
    /\ pc = "load"
    /\ \E k \in DOMAIN go_file.body : go_file.body[k].idx # k - 1

(***************************************************************************)
(* C8                                                                      *)
(***************************************************************************)
\* the indices of the features scaled by neither scaler
UnscaledIndices ==
    {i \in 0..(Len(feature_order) - 1) :
        feature_order[i + 1] \notin StdNames \cup RobustNames}

\* C8: the untransformed_features line lists, in ascending index order and
\* once each, `idx:name` for exactly the features whose name is in neither
\* scaler list.
C8_UntransformedIsComplement ==
    Complete =>
        /\ Cardinality(LinesOf("untransformed_features")) = 1
        /\ LET idxs == Sorted(UnscaledIndices)
           IN  ValsOf("untransformed_features")
                  = [k \in DOMAIN idxs |->
                        ToString(idxs[k]) \o ":" \o feature_order[idxs[k] + 1]]

\* a complete artifact for a parsed order with an untransformed feature
C8_Witness ==
    /\ Complete /\ Parsed
    /\ UnscaledIndices # {}
    /\ Len(ValsOf("untransformed_features")) = Cardinality(UnscaledIndices)

(***************************************************************************)
(* C9                                                                      *)
(***************************************************************************)
\* the k-th values of the index, location and scale lines of one scaler
\* belong together: location and scale are those fitted on the raw column of
\* the indexed feature, and the trained matrix holds that column transformed
\* with them
Aligned(features_key, loc_key, scale_key, loc_fn, scale_fn) ==
    /\ Len(ValsOf(loc_key)) = Len(ValsOf(features_key))
    /\ Len(ValsOf(scale_key)) = Len(ValsOf(features_key))
    /\ \A k \in DOMAIN ValsOf(features_key) :
          LET p    == ParseInt(ValsOf(features_key)[k]) + 1
              name == feature_order[p]
          IN  /\ ValsOf(loc_key)[k] = loc_fn \o "(" \o name \o ")"
              /\ ValsOf(scale_key)[k] = scale_fn \o "(" \o name \o ")"
              /\ model.trained_on[p]
                    = "(" \o name \o "-" \o ValsOf(loc_key)[k] \o ")/"
                          \o ValsOf(scale_key)[k]

\* C9: in the written definitions block the k-th std_mean and std_scale are
\* the fitted mean and scale of the feature at the k-th std_features index,
\* likewise robust_center and robust_scale for robust_features, and they are
\* the parameters the training matrix was transformed with.
C9_ParametersAligned ==
    Complete =>
        /\ Aligned("std_features", "std_mean", "std_scale", "mean", "std")
        /\ Aligned("robust_features", "robust_center", "robust_scale",
                   "median", "iqr")

\* a complete artifact whose scaled features are not in configured order
C9_Witness ==
    /\ Complete /\ Parsed
    /\ ~InConfiguredOrder(STD_SCALER_FEATURES)
    /\ Len(ValsOf("std_mean")) = Len(STD_SCALER_FEATURES)

(***************************************************************************)
(* C10                                                                     *)
(***************************************************************************)
\* the p-th smallest of the source indices
NthSourceIndex(p) ==
    CHOOSE i \in SourceIndices :
        Cardinality({j \in SourceIndices : j < i}) = p - 1

\* the name of the last pair declared with index i
LastNameOf(i) ==
    go_file.body[CHOOSE k \in MatchedEntries :
                    /\ go_file.body[k].idx = i
                    /\ \A j \in MatchedEntries :
                          go_file.body[j].idx = i => j <= k].name

\* C10 as stated: a parsed order of length N comes from source indices that
\* are exactly 0..N-1, none repeated, so every name stands at the position
\* its source index says.
C10_IndicesContiguous ==
    (Parsed /\ pc # "init") =>
        /\ SourceIndices = 0..(Len(feature_order) - 1)
        /\ Cardinality(MatchedEntries) = Len(feature_order)
        /\ \A k \in MatchedEntries :
              feature_order[go_file.body[k].idx + 1] = go_file.body[k].name

\* C10 amended: a parsed order lists one name per distinct source index, in
\* ascending order of source index, the last pair of a repeated index
\* winning; the [order] block numbers them by position.  Position and source
\* index agree for every name exactly when the distinct source indices are
\* 0..N-1; a gap or a repeated index is accepted and renumbered or collapsed
\* without any failure.
C10_SortedByIndexRenumbered ==
    (Parsed /\ pc # "init") =>
        /\ Len(feature_order) = Cardinality(SourceIndices)
        /\ \A p \in DOMAIN feature_order :
              feature_order[p] = LastNameOf(NthSourceIndex(p))
        /\ (\A p \in DOMAIN feature_order : NthSourceIndex(p) = p - 1)
              <=> SourceIndices = 0..(Len(feature_order) - 1)
        /\ failure # "SourceUnreadable"
        /\ Complete =>
              \A p \in DOMAIN feature_order :
                 Appended[6 + p] = KeyValueLine(ToString(p - 1),
                                                <<LastNameOf(NthSourceIndex(p))>>)

\* an artifact written from a declaration with a gap in its indices
C10_Witness ==
    /\ Complete /\ Parsed
    /\ SourceIndices # 0..(Len(feature_order) - 1)

====
